---- MODULE Spec2Model ----
(***************************************************************************)
(* State machine of CustomizableLayoutComponent                            *)
(* (src/customizable-layout/customizable-layout.component.ts).             *)
(*                                                                         *)
(* Data representation                                                     *)
(*   LayoutList        [containerName, width, items, connectedTo]          *)
(*                     items: sequence of componentNames,                  *)
(*                     connectedTo: sequence of containerNames             *)
(*   CustomizableLayout [kind, lists]                                      *)
(*                     kind = "undefined" : the variant is absent          *)
(*                     kind = "nolists"   : an object without `lists`      *)
(*                     kind = "lists"     : an object with a lists array   *)
(*   CustomizableLayoutConfig [name, version, variants]                    *)
(*                     variants: LayoutType -> CustomizableLayout          *)
(* JavaScript indices are 0-based; the J* operators below keep them.       *)
(***************************************************************************)
EXTENDS Integers, Sequences, FiniteSets, TLC

VARIABLES
    defaultLayout,      \* @Input() defaultLayout
    desktopBreakpoint,  \* @Input() desktopBreakpoint
    tabletBreakpoint,   \* @Input() tabletBreakpoint
    mobileBreakpoint,   \* @Input() mobileBreakpoint
    localStorage,       \* windowRef.localStorage, the entry under defaultLayout.name
    innerWidth,         \* windowRef.innerWidth, the latest viewport width
    layoutState,        \* _layoutState (BehaviorSubject value)
    layoutType,         \* _layoutType
    layoutSub,          \* layout$ subscription: TRUE while it has not errored
    emitted,            \* the layout carried by the last layoutChanged notification
    guidCount,          \* number of container names createGuid has produced
    templateColumns,    \* the grid-track string last given by templateColumns$
    columnsSub,         \* templateColumns$ subscription: TRUE while it has not errored
    storageFull,        \* TRUE when localStorage.setItem throws QuotaExceededError
    sharedItems,        \* <<variant, containerName>> of the working lists whose items
                        \* array is the very array object of the default's list
    trace,              \* what the last handler did, in order: next, layoutChanged, setItem
    lastEvent,          \* the CdkDragDrop event of the last drop
    pc,                 \* "constructed", "ready" (ngOnInit returned), "failed" (ngOnInit threw)
    lastOp,             \* the last handler that ran
    lastResult          \* "ok", or the error the last handler threw

vars == <<defaultLayout, desktopBreakpoint, tabletBreakpoint, mobileBreakpoint,
          localStorage, innerWidth, layoutState, layoutType, layoutSub, emitted,
          guidCount, templateColumns, columnsSub, storageFull, sharedItems, trace,
          lastEvent, pc, lastOp, lastResult>>

(***************************************************************************)
(* Bounds                                                                  *)
(***************************************************************************)
MaxGuid == 1

(***************************************************************************)
(* Program constants                                                       *)
(***************************************************************************)
DefaultDesktopBreakpoint == 1024
DefaultTabletBreakpoint == 990
DefaultMobileBreakpoint == 420

Mobile == "Mobile"
Tablet == "Tablet"
Desktop == "Desktop"
LayoutTypes == {Mobile, Tablet, Desktop}

(***************************************************************************)
(* Values                                                                  *)
(***************************************************************************)
UndefinedLayout == [kind |-> "undefined", lists |-> <<>>]
NoListsLayout == [kind |-> "nolists", lists |-> <<>>]
MkLayout(ls) == [kind |-> "lists", lists |-> ls]
MkList(cn, w, its, conn) ==
    [containerName |-> cn, width |-> w, items |-> its, connectedTo |-> conn]
MkConfig(n, v, m, t, d) ==
    [name |-> n, version |-> v,
     variants |-> [x \in LayoutTypes |->
                      IF x = Mobile THEN m ELSE IF x = Tablet THEN t ELSE d]]

\* the version of a stored JSON value whose `version` is not a number
NonNumericVersion == 0 - 1
\* the BehaviorSubject's initial value, null
NullState == MkConfig("", NonNumericVersion, UndefinedLayout, UndefinedLayout, UndefinedLayout)

(***************************************************************************)
(* Array helpers (JavaScript semantics, 0-based indices)                   *)
(***************************************************************************)
Range(s) == {s[i] : i \in DOMAIN s}
JAt(s, i) == s[i + 1]
\* Array.prototype.indexOf / findIndex: first index, -1 when absent
JIndexOf(s, x) ==
    IF x \in Range(s)
    THEN (CHOOSE i \in DOMAIN s : s[i] = x /\ \A j \in 1..(i - 1) : s[j] # x) - 1
    ELSE 0 - 1
\* mutant of JSpliceInsert: splice(start, 1, e), which puts e in place of an element
JSpliceInsert_Replaces(s, start, e) ==
    SubSeq(s, 1, IF start > Len(s) THEN Len(s) ELSE start) \o <<e>>
        \o SubSeq(s, (IF start > Len(s) THEN Len(s) ELSE start) + 2, Len(s))

\* Array.prototype.splice(start, 0, e) with 0 <= start
JSpliceInsert(s, start, e) ==
    LET at == IF start > Len(s) THEN Len(s) ELSE start
    IN  SubSeq(s, 1, at) \o <<e>> \o SubSeq(s, at + 1, Len(s))
\* Array.prototype.splice(start, 1) with 0 <= start < length: the remaining array
JSpliceRemove(s, start) == SubSeq(s, 1, start) \o SubSeq(s, start + 2, Len(s))

ContainerNames(lists) == [i \in DOMAIN lists |-> lists[i].containerName]

RECURSIVE FlatItems(_)
\* lists.flatMap(column => column.items)
FlatItems(lists) ==
    IF lists = <<>> THEN <<>> ELSE Head(lists).items \o FlatItems(Tail(lists))

\* lists.find(l => l.containerName === cn): its 1-based position, 0 when undefined
FindList(lists, cn) == JIndexOf(ContainerNames(lists), cn) + 1

(***************************************************************************)
(* Persistence: JSON text kept under the key defaultLayout.name            *)
(*   kind = "absent"    : no entry (getItem returns null)                  *)
(*   kind = "malformed" : an entry that is not JSON                        *)
(*   kind = "json"      : the JSON text of `value`                         *)
(***************************************************************************)
AbsentEntry == [kind |-> "absent", value |-> NullState]
MalformedEntry == [kind |-> "malformed", value |-> NullState]

\* JSON.stringify of one layout: a property whose value is undefined is left out,
\* so {lists: undefined} is written as {} and reads back as an object without lists
JsonLayout(l) ==
    IF l.kind = "lists" THEN l
    ELSE IF l.kind = "nolists" THEN NoListsLayout
    ELSE UndefinedLayout

\* JSON.stringify(config)
JsonStringify(cfg) ==
    [kind |-> "json",
     value |-> [name |-> cfg.name, version |-> cfg.version,
                variants |-> [t \in LayoutTypes |-> JsonLayout(cfg.variants[t])]]]

\* JSON.parse(text): JSON.parse(null) is null, text that is not JSON throws SyntaxError
JsonParse(entry) ==
    IF entry.kind = "malformed" THEN [ok |-> FALSE, isNull |-> FALSE, value |-> NullState]
    ELSE IF entry.kind = "absent" THEN [ok |-> TRUE, isNull |-> TRUE, value |-> NullState]
    ELSE [ok |-> TRUE, isNull |-> FALSE, value |-> entry.value]

\* createCopy(obj): JSON.parse(JSON.stringify(obj))
CreateCopy(cfg) == JsonParse(JsonStringify(cfg)).value
CreateLayoutCopy(l) == JsonLayout(l)

\* the items arrays of the default's variants, each named <<variant, containerName>>
DefaultItems(defaultCfg, types) ==
    UNION {{<<t, cn>> : cn \in Range(ContainerNames(defaultCfg.variants[t].lists))} :
              t \in types}

\* mutant of SharedAfterCopy: createCopy hands back the object it was given
SharedAfterCopy_ByReference(arrays) == arrays

\* createCopy(obj): the arrays of obj that are also arrays of the result; JSON.parse
\* builds every array anew, so none is
SharedAfterCopy(arrays) == {}

\* isCustomizableLayoutConfig(x): non-empty name, numeric version, Mobile variant
\* populated with lists
IsCustomizableLayoutConfig(parsed) ==
    /\ ~parsed.isNull
    /\ parsed.value.name # ""
    /\ parsed.value.version # NonNumericVersion
    /\ parsed.value.variants[Mobile].kind = "lists"

(***************************************************************************)
(* Reconciliation: addMissingComponentsToStoredLayout                      *)
(***************************************************************************)
\* mutant of MissingElementNames: the filter against the stored elements is lost
MissingElementNames_Unfiltered(defaultLists, storedLists) == FlatItems(defaultLists)

\* defaultLayoutElements names filtered by absence from the stored elements
MissingElementNames(defaultLists, storedLists) ==
    SelectSeq(FlatItems(defaultLists),
              LAMBDA e : JIndexOf(FlatItems(storedLists), e) < 0)

\* the least element of a set of positions, 0 for the empty set
FirstOf(positions) ==
    IF positions = {} THEN 0 ELSE CHOOSE i \in positions : \A j \in positions : i <= j

\* _.findKey over _.groupBy(lists, containerName): the first key, in order of first
\* appearance, whose first list holds the component; 0 when findKey is undefined
OriginList(defaultLists, comp) ==
    FirstOf({i \in DOMAIN defaultLists :
                /\ FindList(defaultLists, defaultLists[i].containerName) = i
                /\ comp \in Range(defaultLists[i].items)})

\* mutant of PlacementIndex: an index equal to the stored length also falls back to 0
PlacementIndex_AtLength(defaultElementIndex, storedLayoutItems) ==
    IF defaultElementIndex >= Len(storedLayoutItems) THEN 0 ELSE defaultElementIndex

\* the index used by splice: the default index, 0 when it exceeds the stored length
PlacementIndex(defaultElementIndex, storedLayoutItems) ==
    IF defaultElementIndex > Len(storedLayoutItems) THEN 0 ELSE defaultElementIndex

\* storedLayout.lists.find(...).items.splice(defaultElementIndex, 0, element), where s
\* is the position of the found list: .items of undefined throws TypeError
SpliceIntoStored(storedLists, s, defaultElementIndex, comp) ==
    IF s = 0 THEN [ok |-> FALSE, lists |-> storedLists]
    ELSE [ok |-> TRUE,
          lists |-> [storedLists EXCEPT ![s].items =
              JSpliceInsert(storedLists[s].items,
                            PlacementIndex(defaultElementIndex, storedLists[s].items),
                            comp)]]

\* the forEach body once findKey has answered with the list at position o
InsertFromOrigin(storedLists, defaultLists, comp, o) ==
    IF o = 0 THEN [ok |-> FALSE, lists |-> storedLists]
    ELSE SpliceIntoStored(storedLists,
                          FindList(storedLists, defaultLists[o].containerName),
                          JIndexOf(defaultLists[o].items, comp),
                          comp)

\* body of missingElementNames.forEach for one component
InsertMissing(storedLists, defaultLists, comp) ==
    InsertFromOrigin(storedLists, defaultLists, comp, OriginList(defaultLists, comp))

RECURSIVE InsertAllMissing(_, _, _)
\* the rest of the forEach after one body ran: a TypeError ends it
InsertRest(r, defaultLists, rest) ==
    IF r.ok THEN InsertAllMissing(r.lists, defaultLists, rest) ELSE r

\* missingElementNames.forEach(...)
InsertAllMissing(storedLists, defaultLists, missing) ==
    IF missing = <<>> THEN [ok |-> TRUE, lists |-> storedLists]
    ELSE InsertRest(InsertMissing(storedLists, defaultLists, Head(missing)),
                    defaultLists, Tail(missing))

\* the stored config with one variant's lists replaced by the forEach's outcome
WithLists(storedCfg, type, r) ==
    [ok |-> r.ok, cfg |-> [storedCfg EXCEPT !.variants[type] = MkLayout(r.lists)]]

\* addMissingComponentsToStoredLayout(storedLayoutConfig, defaultLayoutConfig, layoutType)
AddMissingComponentsToStoredLayout(storedCfg, defaultCfg, type) ==
    IF storedCfg.variants[type].kind = "undefined" \/ defaultCfg.variants[type].kind = "undefined"
    THEN [ok |-> TRUE, cfg |-> storedCfg]
    ELSE IF storedCfg.variants[type].kind = "nolists" \/ defaultCfg.variants[type].kind = "nolists"
    THEN [ok |-> FALSE, cfg |-> storedCfg]
    ELSE WithLists(storedCfg, type,
             InsertAllMissing(storedCfg.variants[type].lists, defaultCfg.variants[type].lists,
                 MissingElementNames(defaultCfg.variants[type].lists,
                                     storedCfg.variants[type].lists)))

\* the next call of initializeState after an earlier one returned r
ThenAddMissing(r, defaultCfg, type) ==
    IF r.ok THEN AddMissingComponentsToStoredLayout(r.cfg, defaultCfg, type) ELSE r

\* the three calls of initializeState, Mobile, Tablet, Desktop in that order
Reconcile(storedCfg, defaultCfg) ==
    ThenAddMissing(
        ThenAddMissing(AddMissingComponentsToStoredLayout(storedCfg, defaultCfg, Mobile),
                       defaultCfg, Tablet),
        defaultCfg, Desktop)

\* mutant of KeepsStored: the version comparison is turned around
KeepsStored_OlderKept(parsed, defaultCfg) ==
    /\ IsCustomizableLayoutConfig(parsed)
    /\ parsed.value.version <= defaultCfg.version

\* the condition of initializeState under which the stored config is kept
KeepsStored(parsed, defaultCfg) ==
    /\ IsCustomizableLayoutConfig(parsed)
    /\ defaultCfg.version <= parsed.value.version

\* _layoutState.next(storedLayout) once the three calls returned r; the arrays of
\* the stored config come from JSON.parse and none is the default's
AdoptStored(r) ==
    IF r.ok THEN [result |-> "ok", state |-> r.cfg, shared |-> {}]
    ELSE [result |-> "TypeError", state |-> NullState, shared |-> {}]

\* initializeState() after JSON.parse answered
InitializeFrom(parsed, defaultCfg) ==
    IF ~parsed.ok THEN [result |-> "SyntaxError", state |-> NullState, shared |-> {}]
    ELSE IF KeepsStored(parsed, defaultCfg)
    THEN AdoptStored(Reconcile(parsed.value, defaultCfg))
    ELSE [result |-> "ok", state |-> CreateCopy(defaultCfg),
          shared |-> SharedAfterCopy(DefaultItems(defaultCfg, LayoutTypes))]

\* initializeState(): the outcome, the value given to _layoutState.next and the
\* items arrays that value shares with the default config
InitializeState(entry, defaultCfg) == InitializeFrom(JsonParse(entry), defaultCfg)

(***************************************************************************)
(* Breakpoint selection and connected lists                                *)
(***************************************************************************)
\* mutant of SelectLayoutType: the Desktop tier of the TODO is filled in
SelectLayoutType_WithDesktop(width, tabletBp) ==
    IF width <= tabletBp THEN Mobile
    ELSE IF width <= desktopBreakpoint THEN Tablet ELSE Desktop

\* the map of layoutType$ from a width to a LayoutType
SelectLayoutType(width, tabletBp) ==
    IF width <= tabletBp THEN Mobile ELSE Tablet

\* get currentLayout
CurrentLayout(state, type) == state.variants[type]

\* getConnectedToString(self), reading this.currentLayout
GetConnectedToString(self, current) ==
    SelectSeq(ContainerNames(current.lists), LAMBDA cn : cn # self)

\* getConnectedLists(layout) evaluated while this.currentLayout is `current`:
\* layout?.lists.map(...) is undefined for an undefined layout, throws for an object
\* without lists, and getConnectedToString throws when the current layout has no lists
GetConnectedLists(layout, current) ==
    IF layout.kind = "undefined" THEN [ok |-> TRUE, layout |-> NoListsLayout]
    ELSE IF layout.kind = "nolists" THEN [ok |-> FALSE, layout |-> layout]
    ELSE IF layout.lists # <<>> /\ current.kind # "lists"
    THEN [ok |-> FALSE, layout |-> layout]
    ELSE [ok |-> TRUE,
          layout |-> MkLayout([i \in DOMAIN layout.lists |->
              [layout.lists[i] EXCEPT !.connectedTo =
                  GetConnectedToString(layout.lists[i].containerName, current)]])]

(***************************************************************************)
(* Publication: _layoutState.next(v), layout$, templateColumns$ and        *)
(* set currentLayout.  A bundle is the part of the heap a handler changes  *)
(* while it runs: the working config, the storage entry, what the two      *)
(* streams last gave, the default config and the items arrays the working  *)
(* config shares with it, the error thrown, and the trace of the handler.  *)
(***************************************************************************)
Bundle(st, sto, em, sb) ==
    [state |-> st, storage |-> sto, emitted |-> em, sub |-> sb,
     columns |-> <<>>, colSub |-> FALSE, full |-> FALSE, thrown |-> "",
     shared |-> {}, default |-> NullState, log |-> <<>>]

\* the entries of a handler's trace
NextEvent(cfg) == [kind |-> "next", cfg |-> cfg, layout |-> UndefinedLayout]
LayoutChangedEvent(layout) == [kind |-> "layoutChanged", cfg |-> NullState, layout |-> layout]
SetItemEvent(cfg) == [kind |-> "setItem", cfg |-> cfg, layout |-> UndefinedLayout]

\* a handler that returned, or that ended in the error held by the bundle
Outcome(b) == [result |-> IF b.thrown = "" THEN "ok" ELSE b.thrown, b |-> b]
\* a handler that throws err
Throw(b, err) == [result |-> err, b |-> [b EXCEPT !.thrown = err]]

RECURSIVE JoinWidths(_)
\* lists.map(l => l.width).reduce((cur, prev) => cur + ' ' + prev, ''), the string
\* as the sequence of its pieces
JoinWidths(lists) ==
    IF lists = <<>> THEN <<>>
    ELSE <<" ", Head(lists).width>> \o JoinWidths(Tail(lists))

\* get currentColumns: .lists of an undefined layout and .map of undefined lists throw
CurrentColumns(layout) ==
    IF layout.kind = "lists" THEN [ok |-> TRUE, value |-> JoinWidths(layout.lists)]
    ELSE [ok |-> FALSE, value |-> <<>>]

\* the map of layout$ on one combineLatest emission: layoutChanged.next(connected
\* current layout); a throw inside map errors the subscription, which then stays silent
PublishLayout(b, type) ==
    IF ~b.sub THEN b
    ELSE LET cur == CurrentLayout(b.state, type)
             r == GetConnectedLists(cur, cur)
         IN  IF r.ok THEN [b EXCEPT !.emitted = r.layout,
                                    !.log = Append(@, LayoutChangedEvent(r.layout))]
             ELSE [b EXCEPT !.sub = FALSE]

\* the map of templateColumns$ on one combineLatest emission
PublishColumns(b, type) ==
    IF ~b.colSub THEN b
    ELSE LET r == CurrentColumns(CurrentLayout(b.state, type))
         IN  IF r.ok THEN [b EXCEPT !.columns = r.value]
             ELSE [b EXCEPT !.colSub = FALSE]

\* one emission of combineLatest([layoutType$, _layoutState]) to both streams
Publish(b, type) == PublishColumns(PublishLayout(b, type), type)

\* mutant of SetCurrentLayout: the new layout is stored under Mobile, whatever
\* _layoutType is
SetCurrentLayout_IntoMobile(b, type, newVal) ==
    [Publish([b EXCEPT !.state.variants[Mobile] = newVal], type)
        EXCEPT !.storage = JsonStringify([b.state EXCEPT !.variants[Mobile] = newVal])]

\* mutant of SetCurrentLayout: setItem writes the value held before next
SetCurrentLayout_WritesPrevious(b, type, newVal) ==
    [Publish([b EXCEPT !.state.variants[type] = newVal], type)
        EXCEPT !.storage = JsonStringify(b.state)]

\* set currentLayout(newVal): next(updatedLayout), then localStorage.setItem, which
\* throws when the storage is full
SetCurrentLayout(b, type, newVal) ==
    LET updatedLayout == [b.state EXCEPT !.variants[type] = newVal]
        published == Publish([b EXCEPT !.state = updatedLayout,
                                       !.log = Append(@, NextEvent(updatedLayout))], type)
    IN  IF b.full THEN [published EXCEPT !.thrown = "QuotaExceededError"]
        ELSE [published EXCEPT !.storage = JsonStringify(updatedLayout),
                               !.log = Append(@, SetItemEvent(updatedLayout))]

\* updateLayout(): this.currentLayout = this.getConnectedLists(this.currentLayout)
UpdateLayout(b, type) ==
    LET cur == CurrentLayout(b.state, type)
        r == GetConnectedLists(cur, cur)
    IN  IF r.ok THEN Outcome(SetCurrentLayout(b, type, r.layout))
        ELSE Throw(b, "TypeError")

\* the updateLayout() call that ends a column handler: not reached when the
\* assignment before it threw
ThenUpdateLayout(b, type) ==
    IF b.thrown # "" THEN Outcome(b) ELSE UpdateLayout(b, type)

\* getEmptyList() with the container name createGuid returned
GetEmptyList(guid) == MkList(guid, "1fr", <<>>, <<>>)

(***************************************************************************)
(* Sharing with the default config                                         *)
(***************************************************************************)
\* the variant `type` of the working config replaced by lists that share `arrays`
Reshare(b, type, arrays) ==
    [b EXCEPT !.shared = {p \in @ : p[1] # type} \cup arrays]

\* the working list cn is dropped or given a new items array
Unshare(b, type, cn) == [b EXCEPT !.shared = @ \ {<<type, cn>>}]

\* push, splice or moveItemInArray on the items array of the working list cn, which
\* holds `items` afterwards: the write shows in the default config when the array is
\* the default's own
WriteThrough(b, type, cn, items) ==
    IF <<type, cn>> \in b.shared /\ FindList(b.default.variants[type].lists, cn) > 0
    THEN [b EXCEPT !.default.variants[type].lists[
                       FindList(b.default.variants[type].lists, cn)].items = items]
    ELSE b

(***************************************************************************)
(* Mutators, each from a bundle to [result, b]                             *)
(***************************************************************************)
\* addColumnRightPressed()
AddColumnRightPressed(b, type, guid) ==
    LET cur == CurrentLayout(b.state, type)
    IN  IF cur.kind # "lists" THEN Throw(b, "TypeError")
        ELSE ThenUpdateLayout(
                 SetCurrentLayout(b, type, MkLayout(Append(cur.lists, GetEmptyList(guid)))),
                 type)

\* addColumnLeftPressed()
AddColumnLeftPressed(b, type, guid) ==
    LET cur == CurrentLayout(b.state, type)
    IN  IF cur.kind # "lists" THEN Throw(b, "TypeError")
        ELSE ThenUpdateLayout(
                 SetCurrentLayout(b, type, MkLayout(<<GetEmptyList(guid)>> \o cur.lists)),
                 type)

\* mutant of RemoveColumnLeftPressed: the spill-over goes in front of the items of
\* the list that becomes first
RemoveColumnLeftPressed_SpillFirst(b, type) ==
    IF CurrentLayout(b.state, type).kind # "lists" \/ Len(CurrentLayout(b.state, type).lists) < 2
    THEN Throw(b, "TypeError")
    ELSE ThenUpdateLayout(
             SetCurrentLayout(b, type,
                 MkLayout([Tail(CurrentLayout(b.state, type).lists) EXCEPT ![1].items =
                              CurrentLayout(b.state, type).lists[1].items \o @])),
             type)

\* removeColumnLeftPressed(): lists[0] of slice(1) is undefined with fewer than two
\* lists, and nothing has been changed when that throws
RemoveColumnLeftPressed(b, type) ==
    LET cur == CurrentLayout(b.state, type)
    IN  IF cur.kind # "lists" \/ Len(cur.lists) < 2 THEN Throw(b, "TypeError")
        ELSE LET spillOver == cur.lists[1].items
                 rest == Tail(cur.lists)
                 lists == [rest EXCEPT ![1].items = rest[1].items \o spillOver]
                 pushed == Unshare(WriteThrough(b, type, rest[1].containerName,
                                                rest[1].items \o spillOver),
                                   type, cur.lists[1].containerName)
             IN  ThenUpdateLayout(SetCurrentLayout(pushed, type, MkLayout(lists)), type)

\* removeColumnRightPressed(): lists.pop() acts on the array held by the working
\* config, so with one list the pop has emptied it when lists[-1].items throws
RemoveColumnRightPressed(b, type) ==
    LET cur == CurrentLayout(b.state, type)
    IN  IF cur.kind # "lists" \/ cur.lists = <<>> THEN Throw(b, "TypeError")
        ELSE LET n == Len(cur.lists)
                 spillOver == cur.lists[n].items
                 popped == SubSeq(cur.lists, 1, n - 1)
                 unshared == Unshare(b, type, cur.lists[n].containerName)
             IN  IF popped = <<>>
                 THEN Throw([unshared EXCEPT !.state.variants[type] = MkLayout(popped)],
                            "TypeError")
                 ELSE LET lists == [popped EXCEPT ![n - 1].items =
                                        popped[n - 1].items \o spillOver]
                          pushed == WriteThrough(unshared, type, popped[n - 1].containerName,
                                                 popped[n - 1].items \o spillOver)
                      IN  ThenUpdateLayout(SetCurrentLayout(pushed, type, MkLayout(lists)),
                                           type)

\* mutant of ResetPressed: the current layout is reconnected instead of the default's
ResetPressed_FromCurrent(b, type, defaultCfg) ==
    IF GetConnectedLists(CurrentLayout(b.state, type), CurrentLayout(b.state, type)).ok
    THEN Outcome(SetCurrentLayout(b, type,
                    CreateLayoutCopy(GetConnectedLists(CurrentLayout(b.state, type),
                                                       CurrentLayout(b.state, type)).layout)))
    ELSE Throw(b, "TypeError")

\* resetPressed(): the default's lists are connected by getConnectedToString, which
\* reads the container names of this.currentLayout; getConnectedLists keeps each
\* default list's items array and createCopy then copies the whole
ResetPressed(b, type, defaultCfg) ==
    LET r == GetConnectedLists(defaultCfg.variants[type], CurrentLayout(b.state, type))
    IN  IF r.ok
        THEN Outcome(SetCurrentLayout(
                 Reshare(b, type, SharedAfterCopy(DefaultItems(defaultCfg, {type}))),
                 type, CreateLayoutCopy(r.layout)))
        ELSE Throw(b, "TypeError")

\* clamp(value, max) of @angular/cdk/drag-drop
Clamp(value, max) ==
    LET lo == IF max < value THEN max ELSE value
    IN  IF lo < 0 THEN 0 ELSE lo

\* moveItemInArray(array, fromIndex, toIndex)
MoveItemInArray(array, fromIndex, toIndex) ==
    LET from == Clamp(fromIndex, Len(array) - 1)
        to == Clamp(toIndex, Len(array) - 1)
    IN  IF from = to THEN array
        ELSE JSpliceInsert(JSpliceRemove(array, from), to, JAt(array, from))

\* mutant of TransferArrayItem: the item is copied and the source array keeps it
TransferArrayItem_Copies(currentArray, targetArray, currentIndex, targetIndex) ==
    IF currentArray = <<>> THEN <<currentArray, targetArray>>
    ELSE <<currentArray,
           JSpliceInsert(targetArray, Clamp(targetIndex, Len(targetArray)),
                         JAt(currentArray, Clamp(currentIndex, Len(currentArray) - 1)))>>

\* transferArrayItem(currentArray, targetArray, currentIndex, targetIndex):
\* the two arrays afterwards
TransferArrayItem(currentArray, targetArray, currentIndex, targetIndex) ==
    LET from == Clamp(currentIndex, Len(currentArray) - 1)
        to == Clamp(targetIndex, Len(targetArray))
    IN  IF currentArray = <<>> THEN <<currentArray, targetArray>>
        ELSE <<JSpliceRemove(currentArray, from),
               JSpliceInsert(targetArray, to, JAt(currentArray, from))>>

\* the rendered list the event names: its position in the emitted layout
ViewList(b, id) == FindList(b.emitted.lists, id)

\* drop(event) with previousContainer === container
DropSame(b, type, id, previousIndex, currentIndex) ==
    LET layout == CurrentLayout(b.state, type)
        v == ViewList(b, id)
        data == MoveItemInArray(b.emitted.lists[v].items, previousIndex, currentIndex)
        moved == WriteThrough([b EXCEPT !.emitted.lists[v].items = data], type, id, data)
        index == FindList(layout.lists, id)
    IN  IF layout.kind # "lists" \/ index = 0 THEN Throw(moved, "TypeError")
        ELSE Outcome(SetCurrentLayout(Unshare(moved, type, id), type,
                         MkLayout([layout.lists EXCEPT ![index].items = data])))

\* drop(event) with previousContainer !== container
DropTransfer(b, type, previousId, id, previousIndex, currentIndex) ==
    LET layout == CurrentLayout(b.state, type)
        pv == ViewList(b, previousId)
        cv == ViewList(b, id)
        data == TransferArrayItem(b.emitted.lists[pv].items, b.emitted.lists[cv].items,
                                  previousIndex, currentIndex)
        moved == WriteThrough(
                     WriteThrough([b EXCEPT !.emitted.lists[pv].items = data[1],
                                            !.emitted.lists[cv].items = data[2]],
                                  type, previousId, data[1]),
                     type, id, data[2])
        prevListIndex == FindList(layout.lists, previousId)
        currListIndex == FindList(layout.lists, id)
    IN  IF layout.kind # "lists" \/ prevListIndex = 0
        THEN Throw(moved, "TypeError")
        ELSE IF currListIndex = 0
        THEN Throw([Unshare(moved, type, previousId)
                       EXCEPT !.state.variants[type].lists[prevListIndex].items = data[1]],
                   "TypeError")
        ELSE Outcome(SetCurrentLayout(Unshare(Unshare(moved, type, previousId), type, id),
                         type,
                         MkLayout([layout.lists EXCEPT ![prevListIndex].items = data[1],
                                                       ![currListIndex].items = data[2]])))

(***************************************************************************)
(* Inputs                                                                  *)
(***************************************************************************)
Widths == {500, 1200}
LayoutName == "dashboard"
\* createGuid(): the n-th fresh container name
GuidNames == <<"guid1", "guid2", "guid3", "guid4">>
CreateGuid(n) == GuidNames[n + 1]

\* a layout from container names and their item sequences; connectedTo is either
\* written out in full ("complete") or left empty ("empty") by the author
BuildLayout(names, items, style) ==
    MkLayout([i \in DOMAIN names |->
        MkList(names[i], "1fr", items[i],
               IF style = "complete"
               THEN SelectSeq(names, LAMBDA cn : cn # names[i])
               ELSE <<>>)])

ConnectedStyles == {"complete", "empty"}

\* default configs of the main specification
MainMobile(st) == BuildLayout(<<"A", "B">>, <<(<<"x">>), (<<"y">>)>>, st)
MainTablet(st) == BuildLayout(<<"A">>, <<(<<"x">>)>>, st)
MainDesktop(st) == BuildLayout(<<"A">>, <<(<<"x">>)>>, st)
MainDefaults ==
    {MkConfig(LayoutName, 2, MainMobile("complete"), MainTablet("complete"), MainDesktop("complete")),
     MkConfig(LayoutName, 2, MainMobile("empty"), UndefinedLayout, MainDesktop("empty"))}

\* stored entries of the main specification: none, not JSON, not a config, an older
\* version, and same-version configs that lack a component, lack a container, were
\* rearranged by the user, or hold a Tablet variant
StoredMissingY == BuildLayout(<<"A", "B">>, <<(<<"x">>), (<<>>)>>, "complete")
StoredMissingB == BuildLayout(<<"A">>, <<(<<"x">>)>>, "complete")
StoredRearranged == BuildLayout(<<"A">>, <<(<<"y", "x">>)>>, "complete")
StoredTablet == BuildLayout(<<"A">>, <<(<<>>)>>, "complete")
MainEntries ==
    {AbsentEntry, MalformedEntry,
     JsonStringify(MkConfig(LayoutName, 2, UndefinedLayout, UndefinedLayout, UndefinedLayout)),
     JsonStringify(MkConfig(LayoutName, 1, StoredMissingY, UndefinedLayout, UndefinedLayout)),
     JsonStringify(MkConfig(LayoutName, 2, StoredMissingY, UndefinedLayout, UndefinedLayout)),
     JsonStringify(MkConfig(LayoutName, 2, StoredMissingB, UndefinedLayout, UndefinedLayout)),
     JsonStringify(MkConfig(LayoutName, 2, StoredRearranged, StoredTablet, UndefinedLayout))}

\* a CdkDragDrop event, and the value of lastEvent when the last handler was no drop
DropEvent(previousId, id, previousIndex, currentIndex) ==
    [previousId |-> previousId, id |-> id,
     previousIndex |-> previousIndex, currentIndex |-> currentIndex]
NoEvent == DropEvent("", "", 0, 0)

\* the state after construction, for given sets of inputs, with a storage that
\* accepts writes or not as the caller adds
InitFrom(defaults, entries, desktopBps, tabletBps, mobileBps) ==
    /\ defaultLayout \in defaults
    /\ localStorage \in entries
    /\ desktopBreakpoint \in desktopBps
    /\ tabletBreakpoint \in tabletBps
    /\ mobileBreakpoint \in mobileBps
    /\ innerWidth \in Widths
    /\ layoutState = NullState
    /\ layoutType = Mobile
    /\ layoutSub = FALSE
    /\ emitted = UndefinedLayout
    /\ guidCount = 0
    /\ templateColumns = <<>>
    /\ columnsSub = FALSE
    /\ sharedItems = {}
    /\ trace = <<>>
    /\ lastEvent = NoEvent
    /\ pc = "constructed"
    /\ lastOp = "constructor"
    /\ lastResult = "ok"

Init ==
    /\ InitFrom(MainDefaults, MainEntries, {DefaultDesktopBreakpoint},
                {DefaultTabletBreakpoint}, {DefaultMobileBreakpoint})
    /\ storageFull = FALSE

(***************************************************************************)
(* Actions                                                                 *)
(***************************************************************************)
Inputs == <<desktopBreakpoint, tabletBreakpoint, mobileBreakpoint>>

\* the bundle of the current state
Now ==
    [Bundle(layoutState, localStorage, emitted, layoutSub)
        EXCEPT !.columns = templateColumns, !.colSub = columnsSub, !.full = storageFull,
               !.shared = sharedItems, !.default = defaultLayout]

\* a handler's outcome written back to the component, with the event it handled
CommitEvent(op, event, out) ==
    /\ layoutState' = out.b.state
    /\ localStorage' = out.b.storage
    /\ emitted' = out.b.emitted
    /\ layoutSub' = out.b.sub
    /\ templateColumns' = out.b.columns
    /\ columnsSub' = out.b.colSub
    /\ sharedItems' = out.b.shared
    /\ defaultLayout' = out.b.default
    /\ trace' = out.b.log
    /\ lastEvent' = event
    /\ lastOp' = op
    /\ lastResult' = out.result

\* a handler's outcome written back to the component
Commit(op, out) == CommitEvent(op, NoEvent, out)

\* ngOnInit(): initializeState, then the subscriptions start with the current width
NgOnInit ==
    /\ pc = "constructed"
    /\ \E r \in {InitializeState(localStorage, defaultLayout)} :
       \E type \in {SelectLayoutType(innerWidth, tabletBreakpoint)} :
          IF r.result = "ok"
          THEN /\ pc' = "ready"
               /\ layoutType' = type
               /\ Commit("ngOnInit",
                         Outcome(Publish([Now EXCEPT !.state = r.state, !.sub = TRUE,
                                                     !.colSub = TRUE, !.shared = r.shared],
                                         type)))
          ELSE /\ pc' = "failed"
               /\ lastOp' = "ngOnInit"
               /\ lastResult' = r.result
               /\ trace' = <<>>
               /\ UNCHANGED <<layoutState, localStorage, emitted, layoutSub, layoutType,
                              templateColumns, columnsSub, sharedItems, defaultLayout,
                              lastEvent>>
    /\ UNCHANGED <<Inputs, storageFull, innerWidth, guidCount>>

\* a window resize event
Resize ==
    /\ pc = "ready"
    /\ \E w \in Widths :
          LET type == SelectLayoutType(w, tabletBreakpoint)
          IN  /\ innerWidth' = w
              /\ layoutType' = type
              /\ Commit("resize", Outcome(Publish(Now, type)))
    /\ UNCHANGED <<Inputs, storageFull, guidCount, pc>>

\* a cdk drop event raised by the rendered lists
Drop ==
    /\ pc = "ready"
    /\ layoutSub
    /\ emitted.kind = "lists"
    /\ \E p \in DOMAIN emitted.lists, c \in DOMAIN emitted.lists :
          \E pi \in 0..(Len(emitted.lists[p].items) - 1) :
             \E ci \in 0..(IF p = c THEN Len(emitted.lists[c].items) - 1
                                    ELSE Len(emitted.lists[c].items)) :
                CommitEvent("drop",
                       DropEvent(emitted.lists[p].containerName,
                                 emitted.lists[c].containerName, pi, ci),
                       IF p = c
                       THEN DropSame(Now, layoutType, emitted.lists[c].containerName, pi, ci)
                       ELSE DropTransfer(Now, layoutType, emitted.lists[p].containerName,
                                         emitted.lists[c].containerName, pi, ci))
    /\ UNCHANGED <<Inputs, storageFull, innerWidth, layoutType, guidCount, pc>>

AddColumnRight ==
    /\ pc = "ready"
    /\ guidCount < MaxGuid
    /\ Commit("addColumnRight", AddColumnRightPressed(Now, layoutType, CreateGuid(guidCount)))
    /\ guidCount' = guidCount + 1
    /\ UNCHANGED <<Inputs, storageFull, innerWidth, layoutType, pc>>

AddColumnLeft ==
    /\ pc = "ready"
    /\ guidCount < MaxGuid
    /\ Commit("addColumnLeft", AddColumnLeftPressed(Now, layoutType, CreateGuid(guidCount)))
    /\ guidCount' = guidCount + 1
    /\ UNCHANGED <<Inputs, storageFull, innerWidth, layoutType, pc>>

RemoveColumnLeft ==
    /\ pc = "ready"
    /\ Commit("removeColumnLeft", RemoveColumnLeftPressed(Now, layoutType))
    /\ UNCHANGED <<Inputs, storageFull, innerWidth, layoutType, guidCount, pc>>

RemoveColumnRight ==
    /\ pc = "ready"
    /\ Commit("removeColumnRight", RemoveColumnRightPressed(Now, layoutType))
    /\ UNCHANGED <<Inputs, storageFull, innerWidth, layoutType, guidCount, pc>>

Reset ==
    /\ pc = "ready"
    /\ Commit("reset", ResetPressed(Now, layoutType, defaultLayout))
    /\ UNCHANGED <<Inputs, storageFull, innerWidth, layoutType, guidCount, pc>>

Next ==
    \/ NgOnInit
    \/ Resize
    \/ Drop
    \/ AddColumnRight
    \/ AddColumnLeft
    \/ RemoveColumnLeft
    \/ RemoveColumnRight
    \/ Reset

Spec == Init /\ [][Next]_vars

(***************************************************************************)
(* Initialization in breadth: every arrangement of up to three components  *)
(* over the containers A and B as default and as stored Mobile variant,    *)
(* and a family of configs that vary versions, validity, the Tablet and    *)
(* Desktop variants and the breakpoint inputs.                             *)
(***************************************************************************)
Components == {"x", "y", "z"}

\* the sequences over S without repetition
InjectiveSeqs(S) ==
    UNION {{f \in [1..n -> S] : \A i, j \in 1..n : i # j => f[i] # f[j]} :
              n \in 0..Cardinality(S)}

\* layouts of one list, and of two lists holding disjoint components
OneListLayouts(cn) ==
    {BuildLayout(<<cn>>, <<its>>, "complete") : its \in InjectiveSeqs(Components)}
TwoListLayouts(cn1, cn2) ==
    {BuildLayout(<<cn1, cn2>>, <<ab[1], ab[2]>>, "complete") :
        ab \in {p \in InjectiveSeqs(Components) \X InjectiveSeqs(Components) :
                   Range(p[1]) \cap Range(p[2]) = {}}}

BroadDefaultMobiles == OneListLayouts("A") \cup TwoListLayouts("A", "B")
BroadStoredMobiles ==
    OneListLayouts("A") \cup OneListLayouts("B")
    \cup TwoListLayouts("A", "B") \cup TwoListLayouts("B", "A")

BroadDefaults ==
    {MkConfig(LayoutName, 2, m, UndefinedLayout, UndefinedLayout) : m \in BroadDefaultMobiles}
BroadEntries ==
    {JsonStringify(MkConfig(LayoutName, 2, m, UndefinedLayout, UndefinedLayout)) :
        m \in BroadStoredMobiles}

\* configs that vary the version, the validity and the other two variants
VariedDefaults ==
    {MkConfig(LayoutName, 2, MainMobile("complete"), t, d) :
        t \in {UndefinedLayout, BuildLayout(<<"A", "B">>, <<(<<"x", "y">>), (<<"z">>)>>, "complete")},
        d \in {UndefinedLayout, BuildLayout(<<"A">>, <<(<<"x", "y">>)>>, "complete")}}
VariedStoredOthers ==
    {UndefinedLayout, NoListsLayout,
     BuildLayout(<<"A", "B">>, <<(<<"y">>), (<<>>)>>, "complete"),
     BuildLayout(<<"B">>, <<(<<"z">>)>>, "complete")}
VariedEntries ==
    {AbsentEntry, MalformedEntry,
     JsonStringify(MkConfig("", 2, StoredRearranged, UndefinedLayout, UndefinedLayout)),
     JsonStringify(MkConfig(LayoutName, NonNumericVersion, StoredRearranged,
                            UndefinedLayout, UndefinedLayout)),
     JsonStringify(MkConfig(LayoutName, 2, UndefinedLayout, StoredTablet, UndefinedLayout)),
     JsonStringify(MkConfig(LayoutName, 2, NoListsLayout, UndefinedLayout, UndefinedLayout))}
    \cup {JsonStringify(MkConfig(LayoutName, v, m, t, d)) :
             v \in 1..3, m \in {StoredMissingY, StoredRearranged},
             t \in VariedStoredOthers, d \in {UndefinedLayout, StoredTablet}}

DesktopBreakpoints == {DefaultDesktopBreakpoint, 450}
TabletBreakpoints == {DefaultTabletBreakpoint, 400, 500, 1200}
MobileBreakpoints == {DefaultMobileBreakpoint, 1100}

InitBroad ==
    /\ \/ InitFrom(BroadDefaults, BroadEntries, {DefaultDesktopBreakpoint},
                   {DefaultTabletBreakpoint}, {DefaultMobileBreakpoint})
       \/ InitFrom(VariedDefaults, VariedEntries, DesktopBreakpoints,
                   TabletBreakpoints, MobileBreakpoints)
    /\ storageFull = FALSE

NextInit ==
    \/ NgOnInit
    \/ Resize

\* initialization and viewport events alone, over the broad inputs
SpecInit == InitBroad /\ [][NextInit]_vars

(***************************************************************************)
(* Drag and drop in breadth: three components over three lists, moved by   *)
(* drops within and between lists, with resets and viewport events.        *)
(***************************************************************************)
DropMobile == BuildLayout(<<"A", "B", "C">>, <<(<<"x", "y">>), (<<"z">>), (<<>>)>>, "complete")
DropTablet == BuildLayout(<<"A">>, <<(<<"x", "y">>)>>, "empty")
DropDefaults == {MkConfig(LayoutName, 2, DropMobile, DropTablet, UndefinedLayout)}
DropEntries ==
    {AbsentEntry,
     JsonStringify(MkConfig(LayoutName, 2,
         BuildLayout(<<"B", "A">>, <<(<<"z", "x">>), (<<"y">>)>>, "complete"),
         UndefinedLayout, UndefinedLayout))}

InitDrop ==
    /\ InitFrom(DropDefaults, DropEntries, {DefaultDesktopBreakpoint},
                {DefaultTabletBreakpoint}, {DefaultMobileBreakpoint})
    /\ storageFull = FALSE

NextDrop ==
    \/ NgOnInit
    \/ Resize
    \/ Drop
    \/ Reset

SpecDrop == InitDrop /\ [][NextDrop]_vars

(***************************************************************************)
(* A storage that is full: every localStorage.setItem throws.              *)
(***************************************************************************)
QuotaEntries ==
    {AbsentEntry,
     JsonStringify(MkConfig(LayoutName, 2, StoredRearranged, StoredTablet, UndefinedLayout))}

InitQuota ==
    /\ InitFrom(MainDefaults, QuotaEntries, {DefaultDesktopBreakpoint},
                {DefaultTabletBreakpoint}, {DefaultMobileBreakpoint})
    /\ storageFull = TRUE

SpecQuota == InitQuota /\ [][Next]_vars

(***************************************************************************)
(* Claims                                                                  *)
(***************************************************************************)
Mutators == {"drop", "addColumnRight", "addColumnLeft", "removeColumnLeft",
             "removeColumnRight", "reset"}
Active == CurrentLayout(layoutState, layoutType)
ComponentsOf(layout) == Range(FlatItems(layout.lists))
EachOnce(layout) == Len(FlatItems(layout.lists)) = Cardinality(ComponentsOf(layout))
Occurrences(seq, x) == Cardinality({i \in DOMAIN seq : seq[i] = x})

\* the state right after ngOnInit ran: localStorage still holds the entry it read
AfterInit == lastOp = "ngOnInit"
Stored == JsonParse(localStorage)
StoredValid == IsCustomizableLayoutConfig(Stored)
MutatorCompleted == pc = "ready" /\ lastOp \in Mutators /\ lastResult = "ok"

\* C1: a mutator operation applied to an active layout in which every componentName
\* occurs once leaves every one of those componentNames in exactly one list: none is
\* duplicated, none is lost.
C1_NoDuplicationNoLoss ==
    [][(pc = "ready" /\ lastOp' \in Mutators /\ EachOnce(Active))
          => (EachOnce(Active') /\ ComponentsOf(Active') = ComponentsOf(Active))]_vars

\* C2: after every completed mutator operation each list of the active layout has
\* connectedTo equal to the containerNames of all other lists of that layout.
C2_ConnectedToComplete ==
    MutatorCompleted =>
        \A i \in DOMAIN Active.lists :
            Active.lists[i].connectedTo =
                SelectSeq(ContainerNames(Active.lists),
                          LAMBDA cn : cn # Active.lists[i].containerName)

MissingIn(type) ==
    MissingElementNames(defaultLayout.variants[type].lists, Stored.value.variants[type].lists)
BothPopulated(type) ==
    /\ defaultLayout.variants[type].kind = "lists"
    /\ Stored.value.variants[type].kind = "lists"
OriginName(type, comp) ==
    defaultLayout.variants[type].lists[
        CHOOSE i \in DOMAIN defaultLayout.variants[type].lists :
            comp \in Range(defaultLayout.variants[type].lists[i].items)].containerName
HasContainer(type, comp) ==
    OriginName(type, comp) \in Range(ContainerNames(Stored.value.variants[type].lists))
Reconciling == AfterInit /\ Stored.ok /\ KeepsStored(Stored, defaultLayout)

\* C4: a missing component whose origin container the stored variant lacks is skipped:
\* no error, no new list, the other missing components are placed, and initialization
\* completes with the stored config as working config.
C4_MissingContainerSkipped ==
    (/\ Reconciling
     /\ \E t \in LayoutTypes :
           BothPopulated(t) /\ \E c \in Range(MissingIn(t)) : ~HasContainer(t, c))
    => /\ pc = "ready" /\ lastResult = "ok"
       /\ layoutState.version = Stored.value.version
       /\ \A t \in LayoutTypes :
             /\ ContainerNames(layoutState.variants[t].lists) =
                    ContainerNames(Stored.value.variants[t].lists)
             /\ BothPopulated(t) =>
                   \A c \in Range(MissingIn(t)) :
                       HasContainer(t, c) => c \in ComponentsOf(layoutState.variants[t])

\* C5: with the storage key absent or its value not JSON, initialization completes
\* and the working config is a copy of the default.
C5_LoadProblemAdoptsDefault ==
    (AfterInit /\ localStorage.kind \in {"absent", "malformed"})
    => (pc = "ready" /\ lastResult = "ok" /\ layoutState = defaultLayout)

RECURSIVE C6_PlaceByRule(_, _, _)
\* the placement rule of C6 applied to the missing components in order
C6_PlaceByRule(storedLists, defaultLists, missing) ==
    IF missing = <<>> THEN storedLists
    ELSE LET c == Head(missing)
             d == CHOOSE i \in DOMAIN defaultLists : c \in Range(defaultLists[i].items)
             index == (CHOOSE k \in DOMAIN defaultLists[d].items :
                          defaultLists[d].items[k] = c) - 1
             s == CHOOSE i \in DOMAIN storedLists :
                      storedLists[i].containerName = defaultLists[d].containerName
             its == storedLists[s].items
             placed == IF index > Len(its) THEN <<c>> \o its
                       ELSE SubSeq(its, 1, index) \o <<c>> \o SubSeq(its, index + 1, Len(its))
         IN  C6_PlaceByRule([storedLists EXCEPT ![s].items = placed], defaultLists,
                            Tail(missing))

\* C6: reconciliation places each missing component, in the default's enumeration
\* order, in the stored list named like its origin container at its default index, or
\* at index 0 when that index exceeds the list's current length; afterwards the stored
\* variant holds every componentName of the default variant exactly once.
C6_PlacementAndCompleteness ==
    (Reconciling /\ pc = "ready") =>
        \A t \in LayoutTypes :
            BothPopulated(t) =>
                /\ layoutState.variants[t].lists =
                       C6_PlaceByRule(Stored.value.variants[t].lists,
                                      defaultLayout.variants[t].lists, MissingIn(t))
                /\ \A c \in ComponentsOf(defaultLayout.variants[t]) :
                       Occurrences(FlatItems(layoutState.variants[t].lists), c) = 1

\* C6 witness: the first missing component of the Mobile variant had a default index
\* beyond the length of its stored list and was placed at the front of it.
C6_Witness ==
    /\ Reconciling /\ pc = "ready" /\ MissingIn(Mobile) # <<>>
    /\ \E i \in DOMAIN defaultLayout.variants[Mobile].lists :
       \E s \in DOMAIN Stored.value.variants[Mobile].lists :
          /\ JIndexOf(defaultLayout.variants[Mobile].lists[i].items, Head(MissingIn(Mobile)))
                 > Len(Stored.value.variants[Mobile].lists[s].items)
          /\ Stored.value.variants[Mobile].lists[s].containerName =
                 defaultLayout.variants[Mobile].lists[i].containerName
          /\ Stored.value.variants[Mobile].lists[s].items # <<>>
          /\ Head(layoutState.variants[Mobile].lists[s].items) = Head(MissingIn(Mobile))

\* C7: reconciling the reconciled config again against the same default changes nothing.
C7_ReconcileIdempotent ==
    (Reconciling /\ pc = "ready") =>
        Reconcile(layoutState, defaultLayout) = [ok |-> TRUE, cfg |-> layoutState]

\* C7 witness: the first reconciliation inserted components.
C7_Witness ==
    /\ Reconciling /\ pc = "ready"
    /\ \E t \in LayoutTypes : BothPopulated(t) /\ Len(MissingIn(t)) >= 2
    /\ layoutState # Stored.value

\* C8: after every completed mutator operation the stored entry is the serialization
\* of the whole working config.
C8_PersistedIsWorkingConfig ==
    MutatorCompleted => localStorage = JsonStringify(layoutState)

\* C8 witness: a column removal completed and the entry holds the merged list.
C8_Witness ==
    /\ MutatorCompleted /\ lastOp = "removeColumnLeft"
    /\ localStorage.kind = "json"
    /\ localStorage.value.variants[layoutType] = Active
    /\ Len(Active.lists) = 1 /\ Len(Active.lists[1].items) = 2

\* C9: the selected breakpoint is Mobile when the latest width is at most
\* tabletBreakpoint and Tablet otherwise, never Desktop, whatever desktopBreakpoint and
\* mobileBreakpoint are.
C9_SelectionByTabletBreakpoint ==
    pc = "ready" =>
        /\ layoutType = (IF innerWidth <= tabletBreakpoint THEN Mobile ELSE Tablet)
        /\ layoutType # Desktop

\* C9 witness: a resize to a width above every breakpoint selected Tablet.
C9_Witness ==
    /\ pc = "ready" /\ lastOp = "resize"
    /\ innerWidth > desktopBreakpoint /\ innerWidth > tabletBreakpoint
    /\ innerWidth > mobileBreakpoint
    /\ layoutType = Tablet

\* a list without its derived connectedTo
Arrangement(lists) ==
    [i \in DOMAIN lists |->
        [containerName |-> lists[i].containerName, width |-> lists[i].width,
         items |-> lists[i].items]]

C11_DefaultNeverModified == [][defaultLayout' = defaultLayout]_vars

\* C11 witness: the working config was adopted from the default (it holds the
\* default's Desktop variant) and a column removal has pushed spill-over items onto
\* a list that the default also has, which there keeps its shorter item sequence.
C11_Witness ==
    /\ MutatorCompleted /\ lastOp \in {"removeColumnLeft", "removeColumnRight"}
    /\ layoutType = Mobile
    /\ defaultLayout.variants[Desktop].kind = "lists"
    /\ layoutState.variants[Desktop] = defaultLayout.variants[Desktop]
    /\ \E i \in DOMAIN Active.lists :
       \E j \in DOMAIN defaultLayout.variants[Mobile].lists :
          /\ Active.lists[i].containerName =
                 defaultLayout.variants[Mobile].lists[j].containerName
          /\ Len(Active.lists[i].items) >
                 Len(defaultLayout.variants[Mobile].lists[j].items)

\* the container names and item sequences of a layout's lists, in order
Contents(lists) ==
    [i \in DOMAIN lists |-> [containerName |-> lists[i].containerName,
                             items |-> lists[i].items]]
\* lists with the items `more` appended to the list at position k
Extended(contents, k, more) == [contents EXCEPT ![k].items = @ \o more]

\* C12: on a layout of at least two lists removeColumnLeft removes the first list and
\* appends its items, in order, to the items of the second, which becomes first;
\* removeColumnRight removes the last list and appends its items, in order, to the
\* items of the one before it; all other lists keep their items and their order.
C12_RemoveSpillsOver ==
    [][(pc = "ready" /\ Active.kind = "lists" /\ Len(Active.lists) >= 2)
       => /\ lastOp' = "removeColumnLeft" =>
                /\ lastResult' = "ok"
                /\ Contents(Active'.lists) =
                       Extended(Tail(Contents(Active.lists)), 1, Active.lists[1].items)
          /\ lastOp' = "removeColumnRight" =>
                /\ lastResult' = "ok"
                /\ Contents(Active'.lists) =
                       Extended(SubSeq(Contents(Active.lists), 1, Len(Active.lists) - 1),
                                Len(Active.lists) - 1,
                                Active.lists[Len(Active.lists)].items)]_vars

\* C12 witness: removeColumnLeft on three lists left two, the first of them holding
\* its own item followed by the spill-over.
C12_Witness ==
    /\ MutatorCompleted /\ lastOp = "removeColumnLeft"
    /\ Len(Active.lists) = 2
    /\ Len(Active.lists[1].items) = 2
    /\ Active.lists[1].containerName = "B"
    /\ Active.lists[1].items = <<"y", "x">>

\* a sequence without its element at 0-based index k, and with e put at index k
Without(seq, k) == [i \in 1..(Len(seq) - 1) |-> IF i <= k THEN seq[i] ELSE seq[i + 1]]
WithAt(seq, k, e) ==
    [i \in 1..(Len(seq) + 1) |-> IF i <= k THEN seq[i] ELSE IF i = k + 1 THEN e ELSE seq[i - 1]]
ItemsOf(layout, cn) == layout.lists[FindList(layout.lists, cn)].items

\* C13: a drop between two different containers of the active layout takes the item
\* at previousIndex out of the source list and puts that item at currentIndex in the
\* destination list; the source's other items keep their order, the destination's
\* items keep theirs around the new one, and every other list is unchanged.
C13_TransferMovesOneItem ==
    [][(/\ lastOp' = "drop"
        /\ lastEvent'.previousId # lastEvent'.id
        /\ Active.kind = "lists"
        /\ lastEvent'.previousId \in Range(ContainerNames(Active.lists))
        /\ lastEvent'.id \in Range(ContainerNames(Active.lists)))
       => /\ lastResult' = "ok"
          /\ ContainerNames(Active'.lists) = ContainerNames(Active.lists)
          /\ ItemsOf(Active', lastEvent'.previousId) =
                 Without(ItemsOf(Active, lastEvent'.previousId), lastEvent'.previousIndex)
          /\ ItemsOf(Active', lastEvent'.id) =
                 WithAt(ItemsOf(Active, lastEvent'.id), lastEvent'.currentIndex,
                        JAt(ItemsOf(Active, lastEvent'.previousId), lastEvent'.previousIndex))
          /\ \A i \in DOMAIN Active.lists :
                 Active.lists[i].containerName \notin {lastEvent'.previousId, lastEvent'.id}
                    => Active'.lists[i] = Active.lists[i]]_vars

\* C13 witness: the item at index 0 of a two-item list went to index 1 of another
\* list that held one item, and a third list is present.
C13_Witness ==
    /\ MutatorCompleted /\ lastOp = "drop"
    /\ lastEvent.previousId # lastEvent.id
    /\ lastEvent.previousIndex = 0 /\ lastEvent.currentIndex = 1
    /\ Len(Active.lists) = 3
    /\ Len(ItemsOf(Active, lastEvent.previousId)) = 1
    /\ Len(ItemsOf(Active, lastEvent.id)) = 2

\* C19: on an active layout of exactly one list removeColumnLeft and
\* removeColumnRight leave the working config and the persisted copy as they were.
C19_SingleListRemoveChangesNothing ==
    [][(/\ pc = "ready" /\ Active.kind = "lists" /\ Len(Active.lists) = 1
        /\ lastOp' \in {"removeColumnLeft", "removeColumnRight"})
       => (layoutState' = layoutState /\ localStorage' = localStorage)]_vars

\* C20: once initialized from a valid config, whatever widths the viewport takes, the
\* selected variant of the working config is populated with lists, and the layout
\* stream and the grid-track stream have raised no error.
C20_SelectedVariantPopulated ==
    (pc = "ready" /\ defaultLayout.variants[Mobile].kind = "lists")
    => (Active.kind = "lists" /\ layoutSub /\ columnsSub)

\* the layoutChanged notifications of a trace, and a layout whose lists each name
\* all the other lists in connectedTo
Notifications(tr) == SelectSeq(tr, LAMBDA e : e.kind = "layoutChanged")
FullyConnected(layout) ==
    /\ layout.kind = "lists"
    /\ \A i \in DOMAIN layout.lists :
           layout.lists[i].connectedTo =
               SelectSeq(ContainerNames(layout.lists),
                         LAMBDA cn : cn # layout.lists[i].containerName)
Handled == pc = "ready" /\ lastOp \in Mutators \cup {"ngOnInit", "resize"}

\* C14: initialization, every mutator operation and every breakpoint change emits a
\* layoutChanged notification; each notification carries a fully connected layout and
\* the last one carries the lists of the active layout of the working config.
C14_NotificationAfterEveryEvent ==
    Handled =>
        /\ Notifications(trace) # <<>>
        /\ \A i \in DOMAIN Notifications(trace) : FullyConnected(Notifications(trace)[i].layout)
        /\ Arrangement(emitted.lists) = Arrangement(Active.lists)
        /\ emitted = Notifications(trace)[Len(Notifications(trace))].layout

ColumnOps == {"addColumnLeft", "addColumnRight", "removeColumnLeft", "removeColumnRight"}

\* C15: while addColumnLeft, addColumnRight, removeColumnLeft or removeColumnRight
\* runs, every working config given to _layoutState.next and every value written to
\* storage has the operated layout fully connected.
C15_NoIntermediateState ==
    (pc = "ready" /\ lastOp \in ColumnOps) =>
        \A i \in DOMAIN trace :
            trace[i].kind \in {"next", "setItem"}
               => FullyConnected(trace[i].cfg.variants[layoutType])

\* C16: when localStorage.setItem fails during a mutator operation the operation
\* still returns normally, and a column operation leaves the active layout with every
\* connectedTo recomputed.
C16_WriteFailureTolerated ==
    (pc = "ready" /\ storageFull /\ lastOp \in Mutators /\ lastResult # "TypeError")
    => /\ lastResult = "ok"
       /\ lastOp \in ColumnOps => FullyConnected(Active)

\* the name, the version and the variants other than `type` of a config
Frame(cfg, type) ==
    [name |-> cfg.name, version |-> cfg.version,
     others |-> [t \in LayoutTypes \ {type} |-> JsonLayout(cfg.variants[t])]]

\* C17 as stated: a mutator operation leaves the name, the version and the two
\* variants that are not selected as they were, in the working config and in the
\* entry held in storage.
C17_OtherVariantsUntouched ==
    [][(pc = "ready" /\ lastOp' \in Mutators)
       => /\ Frame(layoutState', layoutType) = Frame(layoutState, layoutType)
          /\ (localStorage.kind = "json" /\ localStorage'.kind = "json")
                => Frame(localStorage'.value, layoutType) =
                       Frame(localStorage.value, layoutType)]_vars

\* C17 amended: a mutator operation leaves the name, the version and the two variants
\* that are not selected as they were in the working config; it changes the stored
\* entry only by writing the whole working config, so the entry's name, version and
\* other variants are afterwards those of the working config, and they are those of
\* the entry before whenever that entry was the serialized working config.
C17_OnlySelectedVariantChanges ==
    [][(pc = "ready" /\ lastOp' \in Mutators)
       => /\ Frame(layoutState', layoutType) = Frame(layoutState, layoutType)
          /\ localStorage' # localStorage
                => /\ localStorage'.kind = "json"
                   /\ Frame(localStorage'.value, layoutType) = Frame(layoutState, layoutType)
          /\ localStorage = JsonStringify(layoutState)
                => /\ localStorage'.kind = "json"
                   /\ Frame(localStorage'.value, layoutType) =
                          Frame(localStorage.value, layoutType)]_vars

\* C17 witness: the working config came from the default, a column of its Mobile
\* variant was removed, and after a breakpoint change a mutator operation completed
\* on the Tablet variant; the stored entry holds the Mobile variant as it was left.
C17_Witness ==
    /\ MutatorCompleted /\ layoutType = Tablet /\ lastOp = "addColumnRight"
    /\ defaultLayout.variants[Desktop].kind = "lists"
    /\ layoutState.variants[Desktop] = defaultLayout.variants[Desktop]
    /\ Len(layoutState.variants[Mobile].lists) = 1
    /\ Len(defaultLayout.variants[Mobile].lists) = 2
    /\ localStorage.kind = "json"
    /\ localStorage.value.variants[Mobile] = layoutState.variants[Mobile]

\* lists without their items
Shells(lists) ==
    [i \in DOMAIN lists |->
        [containerName |-> lists[i].containerName, width |-> lists[i].width,
         connectedTo |-> lists[i].connectedTo]]
\* the elements of seq that are among those of kept, in the order of seq
Restricted(seq, kept) == SelectSeq(seq, LAMBDA c : c \in Range(kept))

\* C18: a completed reconciliation only inserts. In every variant the lists are the
\* stored ones in the stored order, each list holds its stored components in their
\* stored order (with the inserted ones among them), and a variant that the stored or
\* the default config lacks is exactly as stored.
C18_ReconcileOnlyInserts ==
    (Reconciling /\ pc = "ready") =>
        \A t \in LayoutTypes :
            IF BothPopulated(t)
            THEN /\ Shells(layoutState.variants[t].lists) = Shells(Stored.value.variants[t].lists)
                 /\ \A i \in DOMAIN Stored.value.variants[t].lists :
                        Restricted(layoutState.variants[t].lists[i].items,
                                   Stored.value.variants[t].lists[i].items)
                            = Stored.value.variants[t].lists[i].items
            ELSE layoutState.variants[t] = Stored.value.variants[t]

\* C18 witness: one variant got a component inserted into a list that held stored
\* components, and another variant, populated in the stored config and absent from
\* the default, is as stored.
C18_Witness ==
    /\ Reconciling /\ pc = "ready"
    /\ \E t \in LayoutTypes :
          /\ BothPopulated(t)
          /\ \E i \in DOMAIN Stored.value.variants[t].lists :
                /\ Stored.value.variants[t].lists[i].items # <<>>
                /\ Len(layoutState.variants[t].lists[i].items) >
                       Len(Stored.value.variants[t].lists[i].items)
    /\ \E t \in LayoutTypes :
          /\ Stored.value.variants[t].kind = "lists"
          /\ defaultLayout.variants[t].kind = "undefined"
          /\ layoutState.variants[t] = Stored.value.variants[t]

====
